---- MODULE Spec2Model ----
(***************************************************************************)
(* EthFI-Bot (bot.py): the report pipeline (four HTTP adapters and         *)
(* format_report), the subscriber registry (SUBSCRIBERS, subscribers.json, *)
(* load_subscribers / save_subscribers), the command handlers start, stop  *)
(* and now, and the periodic job send_broadcast.                           *)
(*                                                                         *)
(* Handlers and the job are coroutines of one asyncio event loop: code     *)
(* between two awaits runs without interleaving, and other coroutines run  *)
(* only while one is suspended at an await.  requests.get is a blocking    *)
(* call, so format_report never yields to the loop.                        *)
(***************************************************************************)
EXTENDS Integers, Sequences, FiniteSets, TLC

\* ------------------------------------------------------------ bounds
\* chat ids are 1..MaxId
MaxId == 2

\* ------------------------------------------------------------ program constants
\* bot.py:191  (oi.get("oi_24h_pct") or 0) > 3
CautionPct == 3
\* bot.py:119  len(hist) >= 24
MinHist == 24

Ids == 1..MaxId

\* An optional number: Python None or a value.
None == [some |-> FALSE, v |-> 0]
Some(n) == [some |-> TRUE, v |-> n]
\* Python `x or 0` on an optional number
OrZero(o) == IF o.some THEN o.v ELSE 0

\* ------------------------------------------------------------ HTTP responses
\* What one adapter's HTTP exchange(s) can produce.  kind "neterr" is a
\* requests exception (connection error, timeout), "http_error" a non-2xx
\* status.
\* CoinGecko /coins/markets: an empty array, or a row whose current_price
\* may be null.
CgResponses ==
    { [kind |-> k, price |-> None] : k \in {"neterr", "http_error", "empty"} }
    \cup { [kind |-> "row", price |-> p] : p \in {None, Some(1)} }

\* Binance premiumIndex: lastFundingRate missing, unparsable, or a number
\* (in units of 0.01%).
FundResponses ==
    { [kind |-> k, rate |-> 0] : k \in {"neterr", "nokey", "badfloat"} }
    \cup { [kind |-> "ok", rate |-> r] : r \in {-1, 0, 2} }

\* Binance openInterest + openInterestHist: current OI, number of history
\* points, and sumOpenInterest of the oldest point (None when unparsable).
\* The oldest point is 0 or 100, so the percentage below is an exact integer.
OiResponses ==
    { [kind |-> "neterr", curr |-> 0, npoints |-> 0, past |-> None] }
    \cup { [kind |-> "ok", curr |-> c, npoints |-> n, past |-> p] :
             c \in {95, 100, 103, 104}, n \in {23, 25},
             p \in {None, Some(0), Some(100)} }

\* DeFiLlama /protocol/ether.fi
TvlResponses ==
    { [kind |-> k, tvl |-> 0] : k \in {"neterr", "http_error"} }
    \cup { [kind |-> "ok", tvl |-> 5] }

\* ------------------------------------------------------------ adapters
\* Each adapter returns [raised, ...fields]; raised = TRUE stands for the
\* exception leaving the adapter.
get_coingecko_ethfi(r) ==
    IF r.kind \in {"neterr", "http_error"}
    THEN [raised |-> TRUE, empty |-> TRUE, price |-> None]
    ELSE IF r.kind = "empty"
    THEN [raised |-> FALSE, empty |-> TRUE, price |-> None]
    ELSE [raised |-> FALSE, empty |-> FALSE, price |-> r.price]

get_binance_funding_latest(r) ==
    IF r.kind = "neterr"
    THEN [raised |-> TRUE, predicted |-> None]
    ELSE IF r.kind = "ok"
    THEN [raised |-> FALSE, predicted |-> Some(r.rate)]
    ELSE [raised |-> FALSE, predicted |-> None]

get_binance_oi_change(r) ==
    IF r.kind = "neterr"
    THEN [raised |-> TRUE, oi |-> 0, oi_24h_pct |-> None]
    ELSE LET past_oi == IF r.npoints >= MinHist THEN r.past ELSE None
         IN  IF past_oi.some /\ past_oi.v # 0 /\ past_oi.v > 0
             THEN [raised |-> FALSE, oi |-> r.curr,
                   oi_24h_pct |-> Some(((r.curr - past_oi.v) * 100) \div past_oi.v)]
             ELSE [raised |-> FALSE, oi |-> r.curr, oi_24h_pct |-> None]

get_llama_tvl(r) ==
    IF r.kind \in {"neterr", "http_error"}
    THEN [raised |-> TRUE, tvl |-> 0]
    ELSE [raised |-> FALSE, tvl |-> r.tvl]

\* ------------------------------------------------------------ format_report
ReasonFunding == "Funding <= 0"
ReasonOiUp == "OI up"
ReasonOiDown == "OI down"

\* bot.py:179-187
Reasons(predicted, pct) ==
    (IF predicted.some /\ predicted.v <= 0 THEN <<ReasonFunding>> ELSE <<>>)
    \o (IF pct.some
        THEN IF pct.v > 0 THEN <<ReasonOiUp>>
             ELSE IF pct.v < 0 THEN <<ReasonOiDown>> ELSE <<>>
        ELSE <<>>)

SignalOffByOne(predicted, pct) ==
    IF predicted.some /\ predicted.v < 0 /\ OrZero(pct) >= 0 THEN "Bullish"
    ELSE IF predicted.some /\ predicted.v > 0 /\ OrZero(pct) >= CautionPct THEN "Caution"
    ELSE IF predicted.some /\ predicted.v > 0 /\ OrZero(pct) < 0 THEN "PullbackRisk"
    ELSE "Neutral"

\* bot.py:189-194
Signal(predicted, pct) ==
    IF predicted.some /\ predicted.v < 0 /\ OrZero(pct) >= 0 THEN "Bullish"
    ELSE IF predicted.some /\ predicted.v > 0 /\ OrZero(pct) > CautionPct THEN "Caution"
    ELSE IF predicted.some /\ predicted.v > 0 /\ OrZero(pct) < 0 THEN "PullbackRisk"
    ELSE "Neutral"

\* The value of a format_report call that raised, and of no call at all.
RaisedReport ==
    [status |-> "raised", dt |-> 0, price |-> 0, tvl |-> None, predicted |-> 0,
     oi |-> 0, oi_pct |-> 0, signal |-> "Neutral", reasons |-> <<>>]
NoReport == [RaisedReport EXCEPT !.status = "none"]

\* The report is the rendered message: each field is what the f-string
\* prints (a default of 0 for an absent number, None for pretty_usd's dash).
\* The adapters are called in order; an exception from the first three is
\* not caught here, the one from get_llama_tvl is.
format_report(feed) ==
    LET cg   == get_coingecko_ethfi(feed.cg)
        fund == get_binance_funding_latest(feed.fund)
        oi   == get_binance_oi_change(feed.oi)
        t    == get_llama_tvl(feed.tvl)
    IN  IF cg.raised \/ fund.raised \/ oi.raised
        THEN RaisedReport
        ELSE [status    |-> "ok",
              dt        |-> feed.dt,
              price     |-> OrZero(cg.price),
              tvl       |-> IF t.raised THEN None ELSE Some(t.tvl),
              predicted |-> OrZero(fund.predicted),
              oi        |-> oi.oi,
              oi_pct    |-> OrZero(oi.oi_24h_pct),
              signal    |-> Signal(fund.predicted, oi.oi_24h_pct),
              reasons   |-> Reasons(fund.predicted, oi.oi_24h_pct)]

\* ------------------------------------------------------------ messages
\* What is handed to the Telegram transport: a rendered report or a fixed
\* text.
ReportMsg(rep) == [kind |-> "report", text |-> "", report |-> rep]
TextMsg(s) == [kind |-> "text", text |-> s, report |-> RaisedReport]
NoMsg == TextMsg("")
\* bot.py:265
RetryLater == TextMsg("retry later")

\* ------------------------------------------------------------ storage
Range(s) == { s[i] : i \in 1..Len(s) }

\* list(subs): the members of a set, each once, in some order.
ListOf(S) ==
    { s \in [1..Cardinality(S) -> S] : \A i, j \in 1..Cardinality(S) : s[i] = s[j] => i = j }

\* subscribers.json: missing, zero bytes (just opened with mode "w"), a
\* prefix of a JSON array, or a complete JSON array of ids.
AbsentFile == [kind |-> "absent", ids |-> <<>>]
EmptyFile == [kind |-> "empty", ids |-> <<>>]
PartialFile == [kind |-> "partial", ids |-> <<>>]
JsonFile(ids) == [kind |-> "json", ids |-> ids]

\* bot.py:27-35: a missing file, and one json.load rejects, give set().
load_subscribers(file) ==
    IF file.kind = "json" THEN Range(file.ids) ELSE {}

\* list(subs) as json.dump receives it.  The order is the set's own; the
\* only reader of the file, load_subscribers, forgets it, so the ascending
\* order stands for every order here.
Ascending(S) ==
    CHOOSE s \in ListOf(S) : \A i, j \in 1..Len(s) : i < j => s[i] < s[j]

\* bot.py:37-39: the file a completed save_subscribers(subs) leaves.
save_subscribers(subs) == JsonFile(Ascending(subs))

\* bot.py:38-39: the files left when the process dies inside
\* save_subscribers: open(DATA_FILE, "w") has truncated the file and
\* json.dump's output is not, or only partly, flushed.
save_subscribers_interrupted(subs) == {EmptyFile, PartialFile}

\* ------------------------------------------------------------ state
VARIABLES
    feed,         \* what the four APIs answer now, and the clock (dt)
    up,           \* the process is running
    SUBSCRIBERS,  \* bot.py:41, the in-memory registry
    disk,         \* subscribers.json
    bpc,          \* send_broadcast: "idle", "loop" (suspended in the loop), "done"
    pending,      \* send_broadcast: what is left of list(SUBSCRIBERS)
    msg,          \* send_broadcast: local msg
    \* history variables, written only to state the properties
    lastReport,   \* result of the last format_report call of the report checks
    crashRec,     \* SUBSCRIBERS when the process last died
    nowLast,      \* the last run of the now handler
    rt,           \* the last registry operation(s)
    sent,         \* send_message calls of the current tick
    fmtCalls,     \* format_report calls of the current tick
    snap,         \* SUBSCRIBERS when the current tick started
    joined,       \* ids that ran /start during the loop and are not in snap
    left,         \* ids that ran /stop during the loop before being served
    tickOutcome   \* how the job of the current tick ended

vars == <<feed, up, SUBSCRIBERS, disk, bpc, pending, msg, lastReport, crashRec,
          nowLast, rt, sent, fmtCalls, snap, joined, left, tickOutcome>>

tickVars == <<bpc, pending, msg, sent, fmtCalls, snap, joined, left, tickOutcome>>

Feed(cg, fund, oi, tvl, dt) == [cg |-> cg, fund |-> fund, oi |-> oi, tvl |-> tvl, dt |-> dt]

AllFeeds ==
    { Feed(cg, fund, oi, tvl, dt) :
        cg \in CgResponses, fund \in FundResponses, oi \in OiResponses,
        tvl \in TvlResponses, dt \in {0, 1} }

\* The feeds the running bot is checked with: everything answers, at two
\* different minutes, and CoinGecko is down.
GoodCg == [kind |-> "row", price |-> Some(1)]
GoodFund == [kind |-> "ok", rate |-> -1]
GoodOi == [kind |-> "ok", curr |-> 104, npoints |-> 25, past |-> Some(100)]
GoodTvl == [kind |-> "ok", tvl |-> 5]
BotFeeds ==
    { Feed(GoodCg, GoodFund, GoodOi, GoodTvl, 0),
      Feed(GoodCg, GoodFund, GoodOi, GoodTvl, 1),
      Feed([kind |-> "neterr", price |-> None], GoodFund, GoodOi, GoodTvl, 0) }

NoRt == [stage |-> "none", x |-> 0, mem0 |-> {}, disk0 |-> {}]
NoCrash == [valid |-> FALSE, mem |-> {}]
NoNow == [fmt |-> "none", reply |-> NoMsg, outcome |-> "none"]

\* The files a start can find: none, or one an earlier run saved.
StartFiles == {AbsentFile} \cup { save_subscribers(S) : S \in SUBSET Ids }

\* The same, with the array in every order.
StartFilesAnyOrder ==
    {AbsentFile} \cup { JsonFile(ids) : ids \in UNION { ListOf(S) : S \in SUBSET Ids } }

\* bot.py:41: SUBSCRIBERS = load_subscribers() at import.
InitWith(feeds, files) ==
    /\ feed \in feeds
    /\ up = TRUE
    /\ disk \in files
    /\ SUBSCRIBERS = load_subscribers(disk)
    /\ bpc = "idle"
    /\ pending = <<>>
    /\ msg = NoReport
    /\ lastReport = NoReport
    /\ crashRec = NoCrash
    /\ nowLast = NoNow
    /\ rt = NoRt
    /\ sent = <<>>
    /\ fmtCalls = 0
    /\ snap = {}
    /\ joined = {}
    /\ left = {}
    /\ tickOutcome = "none"

\* ------------------------------------------------------------ handlers
\* The replies of start and stop are output only and are not kept.
start_without_save(c) ==
    /\ up
    /\ SUBSCRIBERS' = SUBSCRIBERS \cup {c}
    /\ UNCHANGED disk

\* bot.py:239-248
start(c) ==
    /\ up
    /\ SUBSCRIBERS' = SUBSCRIBERS \cup {c}
    /\ disk' = save_subscribers(SUBSCRIBERS')

stop_without_save(c) ==
    /\ up
    /\ IF c \in SUBSCRIBERS
       THEN /\ SUBSCRIBERS' = SUBSCRIBERS \ {c}
            /\ UNCHANGED disk
       ELSE UNCHANGED <<SUBSCRIBERS, disk>>

\* bot.py:250-257
stop(c) ==
    /\ up
    /\ IF c \in SUBSCRIBERS
       THEN /\ SUBSCRIBERS' = SUBSCRIBERS \ {c}
            /\ disk' = save_subscribers(SUBSCRIBERS')
       ELSE UNCHANGED <<SUBSCRIBERS, disk>>

now_unguarded(rep) ==
    IF rep.status = "ok"
    THEN [fmt |-> "ok", reply |-> ReportMsg(rep), outcome |-> "returned"]
    ELSE [fmt |-> "raised", reply |-> NoMsg, outcome |-> "raised"]

\* bot.py:259-265: the body of now, given what format_report did: the reply
\* handed to the transport and how the handler ends.  The transport is taken
\* to accept the reply; a reply_html that raises would take the same except
\* branch as a format_report that raises.
now(rep) ==
    IF rep.status = "ok"
    THEN [fmt |-> "ok", reply |-> ReportMsg(rep), outcome |-> "returned"]
    ELSE [fmt |-> "raised", reply |-> RetryLater, outcome |-> "returned"]

\* ------------------------------------------------------------ send_broadcast
Served == { sent[i].to : i \in 1..Len(sent) }

IterateLive(pend, subs, served) ==
    LET more == subs \ (Range(pend) \cup served)
    IN  pend \o (CHOOSE s \in ListOf(more) : TRUE)

IterateSkippingLeavers(pend, subs, served) ==
    SelectSeq(pend, LAMBDA c : c \in subs)

\* bot.py:273: the loop iterates over list(SUBSCRIBERS), a copy made when the
\* loop starts; what is left to iterate does not depend on SUBSCRIBERS now.
Iterate(pend, subs, served) == pend

SendFresh(m, f) ==
    IF format_report(f).status = "ok" THEN format_report(f) ELSE m

\* bot.py:272,277: text=msg, the report compiled before the loop.
SendText(m, f) == m

AbortOnFailure(rest, ok) == IF ok THEN rest ELSE <<>>

\* bot.py:274-283: an exception from send_message is caught inside the loop
\* body, and the loop goes on with the next chat_id.
AfterSend(rest, ok) == rest

\* bot.py:271-272,284-285: an exception from format_report is caught by the
\* outer handler and logged; the job returns.
job_outcome(rep) == "returned"

\* bot.py:268-273: a tick up to its first await.  With an empty registry it
\* returns at once.  There is no await between the test of SUBSCRIBERS and
\* list(SUBSCRIBERS).
TickStart ==
    /\ up
    /\ bpc \in {"idle", "done"}
    /\ sent' = <<>>
    /\ joined' = {}
    /\ left' = {}
    /\ snap' = SUBSCRIBERS
    /\ IF SUBSCRIBERS = {}
       THEN /\ fmtCalls' = 0
            /\ msg' = NoReport
            /\ tickOutcome' = "returned"
            /\ pending' = <<>>
            /\ bpc' = "done"
       ELSE /\ fmtCalls' = 1
            /\ msg' = format_report(feed)
            /\ tickOutcome' = job_outcome(msg')
            /\ IF msg'.status = "raised"
               THEN /\ pending' = <<>>
                    /\ bpc' = "done"
               ELSE /\ pending' \in ListOf(SUBSCRIBERS)
                    /\ bpc' = "loop"
    /\ UNCHANGED <<feed, up, SUBSCRIBERS, disk, lastReport, crashRec, nowLast, rt>>

\* bot.py:273-283: one iteration of the loop: send_message to the next
\* chat_id succeeds (then asyncio.sleep) or raises (then the warning).
\* Other coroutines run while this one is suspended in either await, that
\* is, between two TickSend steps.
TickSend(ok) ==
    /\ up
    /\ bpc = "loop"
    /\ LET todo == Iterate(pending, SUBSCRIBERS, Served)
       IN  /\ todo # <<>>
           /\ sent' = Append(sent, [to |-> Head(todo), text |-> SendText(msg, feed), ok |-> ok])
           /\ pending' = AfterSend(Tail(todo), ok)
           /\ bpc' = IF Iterate(pending', SUBSCRIBERS, Served \cup {Head(todo)}) = <<>>
                     THEN "done" ELSE "loop"
    /\ UNCHANGED <<feed, up, SUBSCRIBERS, disk, msg, lastReport, crashRec, nowLast, rt,
                   fmtCalls, snap, joined, left, tickOutcome>>

\* /start while the bot runs.
Start(c) ==
    /\ start(c)
    /\ joined' = IF bpc = "loop" /\ c \notin snap THEN joined \cup {c} ELSE joined
    /\ UNCHANGED <<feed, up, bpc, pending, msg, lastReport, crashRec, nowLast, rt,
                   sent, fmtCalls, snap, left, tickOutcome>>

\* /stop while the bot runs.
Stop(c) ==
    /\ stop(c)
    /\ left' = IF bpc = "loop" /\ c \in SUBSCRIBERS /\ c \in snap /\ c \notin Served
               THEN left \cup {c} ELSE left
    /\ UNCHANGED <<feed, up, bpc, pending, msg, lastReport, crashRec, nowLast, rt,
                   sent, fmtCalls, snap, joined, tickOutcome>>

\* /now while the bot runs.
Now ==
    /\ up
    /\ nowLast' = now(format_report(feed))
    /\ UNCHANGED <<feed, up, SUBSCRIBERS, disk, lastReport, crashRec, rt>>
    /\ UNCHANGED tickVars

\* The APIs answer differently, or the minute changes.
MarketMove ==
    /\ feed' \in BotFeeds \ {feed}
    /\ UNCHANGED <<up, SUBSCRIBERS, disk, lastReport, crashRec, nowLast, rt>>
    /\ UNCHANGED tickVars

Init == InitWith(BotFeeds, StartFiles)

Next ==
    \/ \E c \in Ids : Start(c)
    \/ \E c \in Ids : Stop(c)
    \/ TickStart
    \/ \E ok \in BOOLEAN : TickSend(ok)
    \/ MarketMove

\* One run of the bot: the registry handlers, the periodic job and the market.
Spec == Init /\ [][Next]_vars

\* One run of the bot: the report on demand, the periodic job and the market,
\* over every registry a start can load.
NextNow ==
    \/ Now
    \/ TickStart
    \/ \E ok \in BOOLEAN : TickSend(ok)
    \/ MarketMove

SpecNow == Init /\ [][NextNow]_vars

\* ------------------------------------------------------------ registry across restarts
\* /start and /stop, with the last registry operations remembered.
RegStart(c) ==
    /\ start(c)
    /\ rt' = [stage |-> "added", x |-> c, mem0 |-> SUBSCRIBERS,
              disk0 |-> load_subscribers(disk)]
    /\ crashRec' = NoCrash
    /\ UNCHANGED <<feed, up, lastReport, nowLast>>
    /\ UNCHANGED tickVars

RegStop(c) ==
    /\ stop(c)
    /\ rt' = IF rt.stage = "added" /\ rt.x = c
             THEN [rt EXCEPT !.stage = "removed"]
             ELSE NoRt
    /\ crashRec' = IF c \in SUBSCRIBERS THEN NoCrash ELSE crashRec
    /\ UNCHANGED <<feed, up, lastReport, nowLast>>
    /\ UNCHANGED tickVars

\* A dead process has no job in flight.
TickReset ==
    /\ bpc' = "idle"
    /\ pending' = <<>>
    /\ msg' = NoReport
    /\ sent' = <<>>
    /\ fmtCalls' = 0
    /\ snap' = {}
    /\ joined' = {}
    /\ left' = {}
    /\ tickOutcome' = "none"

\* The process dies while no handler is inside save_subscribers.
Crash ==
    /\ up
    /\ up' = FALSE
    /\ crashRec' = [valid |-> TRUE, mem |-> SUBSCRIBERS]
    /\ rt' = NoRt
    /\ TickReset
    /\ UNCHANGED <<feed, SUBSCRIBERS, disk, lastReport, nowLast>>

\* The process dies inside the save_subscribers call of start (bot.py:243)
\* or of stop (bot.py:254): SUBSCRIBERS is already changed.
CrashInSave(c, adding) ==
    /\ up
    /\ adding \/ c \in SUBSCRIBERS
    /\ SUBSCRIBERS' = IF adding THEN SUBSCRIBERS \cup {c} ELSE SUBSCRIBERS \ {c}
    /\ disk' \in save_subscribers_interrupted(SUBSCRIBERS')
    /\ up' = FALSE
    /\ crashRec' = [valid |-> TRUE, mem |-> SUBSCRIBERS']
    /\ rt' = NoRt
    /\ TickReset
    /\ UNCHANGED <<feed, lastReport, nowLast>>

\* bot.py:41: the next start of the process.
Restart ==
    /\ ~up
    /\ up' = TRUE
    /\ SUBSCRIBERS' = load_subscribers(disk)
    /\ UNCHANGED <<feed, disk, lastReport, crashRec, nowLast, rt>>
    /\ UNCHANGED tickVars

InitRegistry == InitWith({Feed(GoodCg, GoodFund, GoodOi, GoodTvl, 0)}, StartFilesAnyOrder)

NextRegistry ==
    \/ \E c \in Ids : RegStart(c)
    \/ \E c \in Ids : RegStop(c)
    \/ Crash
    \/ \E c \in Ids, adding \in BOOLEAN : CrashInSave(c, adding)
    \/ Restart
    \/ TickStart
    \/ \E ok \in BOOLEAN : TickSend(ok)

\* The registry across crashes and restarts, with the periodic job reading it.
SpecRegistry == InitRegistry /\ [][NextRegistry]_vars

\* ------------------------------------------------------------ report checks
\* format_report applied to every combination of adapter responses.
Compile ==
    /\ lastReport.status = "none"
    /\ lastReport' = format_report(feed)
    /\ UNCHANGED <<feed, up, SUBSCRIBERS, disk, crashRec, nowLast, rt>>
    /\ UNCHANGED tickVars

InitReport == InitWith(AllFeeds, {AbsentFile})

NextReport == Compile

SpecReport == InitReport /\ [][NextReport]_vars

\* ------------------------------------------------------------ properties
SymDiff(A, B) == (A \ B) \cup (B \ A)
Attempts(c) == { i \in 1..Len(sent) : sent[i].to = c }
TickRan == bpc \in {"loop", "done"}
TickDelivered == bpc = "done" /\ msg.status = "ok"

\* C1: format_report never fails because of an adapter: whatever
\* combination of the four adapters raises, a report is rendered, and the
\* TVL field is the dash exactly when the TVL adapter raised.
C1_ReportSurvivesAnyAdapterFailure ==
    lastReport.status # "none" =>
        /\ lastReport.status = "ok"
        /\ (lastReport.tvl = None) <=> get_llama_tvl(feed.tvl).raised

\* C2: after a crash at any point, also inside save_subscribers, the set
\* loaded at the next start differs from the in-memory set at the crash by
\* at most one id (the most recent mutation).
C2_CrashLosesAtMostOneMutation ==
    (up /\ crashRec.valid) =>
        Cardinality(SymDiff(SUBSCRIBERS, crashRec.mem)) <= 1

\* C3: the recipients of a tick are exactly the members of SUBSCRIBERS when
\* its loop started; an id that subscribes while the loop is suspended is
\* never sent to by that tick.
C3_SnapshotIsolation ==
    TickRan =>
        /\ Served \subseteq snap
        /\ joined \cap Served = {}
        /\ TickDelivered => Served = snap

C3_Witness ==
    /\ TickDelivered
    /\ snap # {}
    /\ joined # {}
    /\ joined \subseteq SUBSCRIBERS
    /\ Served = snap

\* C4: within one tick every recipient of the snapshot is sent to exactly
\* once, whichever sends raise: a failure neither ends the loop nor is
\* retried.
C4_DeliveryFailureIsolation ==
    /\ TickRan => \A c \in Ids : Cardinality(Attempts(c)) <= 1
    /\ TickDelivered =>
           /\ \A c \in snap : Cardinality(Attempts(c)) = 1
           /\ Len(sent) = Cardinality(snap)

C4_Witness ==
    /\ TickDelivered
    /\ \E i, j \in 1..Len(sent) : i < j /\ ~sent[i].ok /\ sent[j].ok

\* C5: whenever the process runs and no handler is in the middle of its
\* synchronous part (at startup, after every start or stop, while a
\* broadcast is suspended), the set stored in the file equals SUBSCRIBERS.
C5_DiskEqualsMemory ==
    up => load_subscribers(disk) = SUBSCRIBERS

C5_Witness ==
    /\ up
    /\ rt.stage = "removed"
    /\ SUBSCRIBERS # {}
    /\ bpc = "loop"
    /\ disk.kind = "json"

\* C6 as stated: in every tick format_report is called exactly once and
\* every message of the tick carries that report.
C6_FormatExactlyOncePerTick ==
    TickRan =>
        /\ fmtCalls = 1
        /\ \A i \in 1..Len(sent) : sent[i].text = msg

\* C6 as amended: format_report is called once in a tick that finds a
\* non-empty registry and not at all in one that finds it empty; every
\* message of the tick carries the report of that one call.
C6_FormatOncePerNonEmptyTick ==
    TickRan =>
        /\ fmtCalls = (IF snap = {} THEN 0 ELSE 1)
        /\ \A i \in 1..Len(sent) : sent[i].text = msg
        /\ \A i, j \in 1..Len(sent) : sent[i].text = sent[j].text

C6_Witness ==
    /\ TickDelivered
    /\ Len(sent) >= 2
    /\ format_report(feed).status = "ok"
    /\ format_report(feed) # msg
    /\ SUBSCRIBERS # snap

\* C7: when format_report raises, now replies with the retry-later text and
\* returns; a tick sends nothing, calls format_report once, returns, and
\* the next tick can start.
C7_TotalReportFailure ==
    /\ nowLast.fmt = "raised" =>
           /\ nowLast.reply = RetryLater
           /\ nowLast.outcome = "returned"
    /\ (bpc = "done" /\ msg.status = "raised") =>
           /\ sent = <<>>
           /\ fmtCalls = 1
           /\ tickOutcome = "returned"
           /\ ENABLED TickStart

C7_Witness ==
    /\ nowLast.fmt = "raised"
    /\ bpc = "done"
    /\ msg.status = "raised"
    /\ snap # {}

\* The signal as the claim words it: first match wins.
ClaimedSignal(p, q) ==
    IF p.some /\ p.v < 0 /\ (IF q.some THEN q.v ELSE 0) >= 0 THEN "Bullish"
    ELSE IF p.some /\ p.v > 0 /\ q.some /\ q.v > 3 THEN "Caution"
    ELSE IF p.some /\ p.v > 0 /\ q.some /\ q.v < 0 THEN "PullbackRisk"
    ELSE "Neutral"

\* C8: the signal of a rendered report is the first match of Bullish,
\* Caution, PullbackRisk, Neutral on (predicted funding, OI percent); the
\* funding reason is listed exactly when predicted is present and <= 0, the
\* OI reasons exactly when the percent is > 0 resp. < 0 and never both, and
\* with both inputs absent the signal is Neutral with no reasons.
C8_SignalDerivation ==
    lastReport.status = "ok" =>
        LET p == get_binance_funding_latest(feed.fund).predicted
            q == get_binance_oi_change(feed.oi).oi_24h_pct
            rs == Range(lastReport.reasons)
        IN  /\ lastReport.signal = ClaimedSignal(p, q)
            /\ (ReasonFunding \in rs) <=> (p.some /\ p.v <= 0)
            /\ (ReasonOiUp \in rs) <=> (q.some /\ q.v > 0)
            /\ (ReasonOiDown \in rs) <=> (q.some /\ q.v < 0)
            /\ ~(ReasonOiUp \in rs /\ ReasonOiDown \in rs)
            /\ Len(lastReport.reasons) = Cardinality(rs)
            /\ (~p.some /\ ~q.some) =>
                   (lastReport.signal = "Neutral" /\ lastReport.reasons = <<>>)

C8_Witness ==
    /\ lastReport.status = "ok"
    /\ lastReport.predicted > 0
    /\ lastReport.oi_pct = 3
    /\ lastReport.signal = "Neutral"
    /\ lastReport.reasons = <<ReasonOiUp>>

\* C9 as stated: start(x) directly followed by stop(x) restores the
\* registry, in memory and on disk, for every x.
C9_AddRemoveRestores ==
    rt.stage = "removed" =>
        /\ SUBSCRIBERS = rt.mem0
        /\ load_subscribers(disk) = rt.disk0

\* C9 as amended: start(x) directly followed by stop(x) restores the
\* registry, in memory and on disk, when x was not subscribed before; when
\* it was, x is removed and nothing else changes.
C9_AddRemoveRestoresNewId ==
    rt.stage = "removed" =>
        IF rt.x \notin rt.mem0
        THEN /\ SUBSCRIBERS = rt.mem0
             /\ load_subscribers(disk) = rt.disk0
        ELSE /\ SUBSCRIBERS = rt.mem0 \ {rt.x}
             /\ load_subscribers(disk) = rt.disk0 \ {rt.x}

C9_Witness ==
    /\ rt.stage = "removed"
    /\ rt.x \notin rt.mem0
    /\ rt.mem0 # {}
    /\ SUBSCRIBERS = rt.mem0

\* C10: an id of the snapshot that unsubscribes while the loop is suspended
\* and before it was served stays scheduled and is sent the tick's report;
\* a tick only ever sends to members of SUBSCRIBERS at its start.
C10_LeaverStillServed ==
    /\ bpc = "loop" => \A c \in left : c \in Served \/ c \in Range(pending)
    /\ TickDelivered =>
           \A c \in left : \E i \in Attempts(c) : sent[i].text = msg
    /\ TickRan => Served \subseteq snap

C10_Witness ==
    /\ TickDelivered
    /\ \E c \in left : c \notin SUBSCRIBERS /\ Attempts(c) # {}

====
